---- MODULE Spec2Model ----
(***************************************************************************)
(* Model of the prompteng template renderer (packages/core, TemplateParser *)
(* over LiquidJS): the section and must_include_each tags, the per-render  *)
(* Context (scope stack, environments), the emitters and the PromptEngMeta *)
(* side channel.                                                           *)
(*                                                                         *)
(* A template text is a sequence of tokens; strings are sequences of       *)
(* atoms (concatenation is \o).  The directive vocabulary modelled is      *)
(* literal text, must_include_each, section/endsection, for/endfor and     *)
(* if/endif; the loop variable is always `w` and the caller binds `words`. *)
(* A render is a walk of the parsed tree that may be suspended between     *)
(* any two template nodes (LiquidJS awaits every yielded generator).       *)
(***************************************************************************)
EXTENDS Integers, Sequences, FiniteSets, TLC

\* ------------------------------------------------------------------ bounds
MaxTokens == 5
MaxPairTokens == 3
MaxBothTokens == 4
MaxParseTokens == 4
MaxItems == 2
MaxPartialTokens == 3
MaxSpaceTokens == 4
MaxEngineTokens == 5
MaxDefs == 2
MaxGivenTokens == 3
MaxOutTokens == 3
MaxRegisterTokens == 3
MaxWordsTokens == 2
MaxChars == 4
MaxNameTokens == 6
MaxUpperTokens == 5
MaxAssertions == 2
MaxTests == 2

Calls == {1, 2}
SectionNames == {<<"a">>, <<"b">>}

\* ------------------------------------------------------------------ values
\* JavaScript values a binding or a loop variable can hold.
Undefined == [ty |-> "undefined", v |-> <<>>, items |-> <<>>]
StrVal(s) == [ty |-> "string", v |-> s, items |-> <<>>]
NumVal(s) == [ty |-> "number", v |-> s, items |-> <<>>]
ArrVal(xs) == [ty |-> "array", v |-> <<>>, items |-> xs]
Null == [ty |-> "null", v |-> <<>>, items |-> <<>>]
BoolVal(b) == [ty |-> "boolean", v |-> IF b THEN <<"true">> ELSE <<"false">>, items |-> <<>>]

Items == {StrVal(<<"a">>), NumVal(<<"2">>)}

RECURSIVE SeqsUpTo(_, _)
SeqsUpTo(S, n) ==
  IF n = 0 THEN {<<>>}
  ELSE LET shorter == SeqsUpTo(S, n - 1)
       IN shorter \cup {Append(s, x) : s \in {t \in shorter : Len(t) = n - 1}, x \in S}

\* The values the caller may bind to `words`.
Bindings == {Undefined} \cup {ArrVal(xs) : xs \in SeqsUpTo(Items, MaxItems)}

\* String(x) of JavaScript, as a sequence of atoms.
RECURSIVE JoinWith(_, _)
JoinWith(ss, sep) ==
  IF Len(ss) = 0 THEN <<>>
  ELSE IF Len(ss) = 1 THEN ss[1]
  ELSE ss[1] \o sep \o JoinWith(Tail(ss), sep)

String(x) ==
  CASE x.ty = "undefined" -> <<"undefined">>
    [] x.ty = "null" -> <<"null">>
    [] x.ty = "array" -> JoinWith([i \in 1..Len(x.items) |-> x.items[i].v], <<",">>)
    [] OTHER -> x.v

\* jsTruthy: true makes a condition falsy exactly when !value holds in JavaScript.
IsTruthy(x) ==
  CASE x.ty = "undefined" -> FALSE
    [] x.ty = "null" -> FALSE
    [] x.ty = "boolean" -> x.v = <<"true">>
    [] x.ty = "string" -> x.v # <<>>
    [] x.ty = "number" -> x.v # <<"0">>
    [] OTHER -> TRUE

\* ------------------------------------------------------------------ tokens
Tok(t, arg) == [t |-> t, arg |-> arg]
\* `t`, {% must_include_each w %}, {% must_include_each words %}
LeafTokens == {Tok("text", <<"t">>), Tok("must_include_each", <<"w">>), Tok("must_include_each", <<"words">>)}
\* {% section a %}, {% section b %}, {% for w in words %}, {% if words %}
OpenTokens == {Tok("section", n) : n \in SectionNames} \cup {Tok("for", <<"words">>), Tok("if", <<"words">>)}
EndTokens == {Tok("endsection", <<>>), Tok("endfor", <<>>), Tok("endif", <<>>)}
Tokens == LeafTokens \cup OpenTokens \cup EndTokens

EndTagOf(t) == CASE t = "section" -> "endsection" [] t = "for" -> "endfor" [] t = "if" -> "endif" [] OTHER -> ""
IsBlockTag(t) == t \in {"section", "for", "if"}
\* Tag names for which the engine has a Tag class registered.
RegisteredTags == {"upper", "must_include_each", "section", "for", "if", "render"}

\* ------------------------------------------------------------------ parser
NoError == [kind |-> "none", tag |-> Tok("", <<>>)]
NotClosedUnnamed(tok) == [kind |-> "not closed", tag |-> Tok("", <<>>)]
NotClosed(tok) == [kind |-> "not closed", tag |-> tok]
NotFound(tok) == [kind |-> "not found", tag |-> tok]
Node(tok, body) == [t |-> tok.t, arg |-> tok.arg, body |-> body]

\* Parser.parseStream: templates from position i up to the tag named `stop`
\* ("" at top level: up to the end of input).  `opener` is the block tag whose
\* constructor started the stream; its 'end' handler throws "not closed".
RECURSIVE ParseStream(_, _, _, _)
ParseStream(toks, i, stop, opener) ==
  IF i > Len(toks) THEN
    IF stop = "" THEN [err |-> NoError, nodes |-> <<>>, next |-> i]
    ELSE [err |-> NotClosed(opener), nodes |-> <<>>, next |-> i]
  ELSE LET tok == toks[i] IN
    IF stop # "" /\ tok.t = stop THEN [err |-> NoError, nodes |-> <<>>, next |-> i + 1]
    ELSE IF tok.t \notin {"text", "output"} /\ tok.t \notin RegisteredTags THEN
      [err |-> NotFound(tok), nodes |-> <<>>, next |-> i]
    ELSE IF IsBlockTag(tok.t) THEN
      LET inner == ParseStream(toks, i + 1, EndTagOf(tok.t), tok) IN
      IF inner.err # NoError THEN inner
      ELSE LET rest == ParseStream(toks, inner.next, stop, opener) IN
        IF rest.err # NoError THEN rest
        ELSE [err |-> NoError, nodes |-> <<Node(tok, inner.nodes)>> \o rest.nodes, next |-> rest.next]
    ELSE LET rest == ParseStream(toks, i + 1, stop, opener) IN
      IF rest.err # NoError THEN rest
      ELSE [err |-> NoError, nodes |-> <<Node(tok, <<>>)>> \o rest.nodes, next |-> rest.next]

Parse(toks) == ParseStream(toks, 1, "", Tok("", <<>>))

\* The filter table of the engine maps a name to the implementation registered
\* last: "ctor" (registered by the constructor of TemplateParser), "user"
\* (registered through registerFilter afterwards) or "none".  A Value is built
\* when its token is parsed and keeps the handler found then; with strictFilters
\* off a name without a registration gets the identity.
FilterNames == {"default", "shout"}
ConstructorFilters == [f \in FilterNames |-> IF f = "default" THEN "ctor" ELSE "none"]
FilterHandler(table, name) == IF table[name] = "none" THEN "identity" ELSE table[name]

RECURSIVE BindFilters(_, _)
BindFilters(nodes, table) ==
  [j \in 1..Len(nodes) |->
     [t |-> nodes[j].t,
      arg |-> IF nodes[j].t = "output" /\ Len(nodes[j].arg) = 2
              THEN Append(nodes[j].arg, FilterHandler(table, nodes[j].arg[2]))
              ELSE nodes[j].arg,
      body |-> BindFilters(nodes[j].body, table)]]

\* Token sequences of exactly n tokens in which every block is closed.
RECURSIVE Balanced(_, _, _)
Balanced(n, leaves, opens) ==
  IF n = 0 THEN {<<>>}
  ELSE {<<l>> \o r : l \in leaves, r \in Balanced(n - 1, leaves, opens)}
       \cup UNION {
            {<<o>> \o x \o <<Tok(EndTagOf(o.t), <<>>)>> \o y :
                 x \in Balanced(i, leaves, opens), y \in Balanced(n - 2 - i, leaves, opens)}
            : o \in opens, i \in 0..(n - 2)}

BalancedUpTo(n, leaves, opens) == UNION {Balanced(k, leaves, opens) : k \in 0..n}

\* ------------------------------------------------------------------ state
VARIABLES
  template,   \* the template text handed to the parser by every call of the run
  plan,       \* per call: which operation the caller invokes and with what binding
  call,       \* per call: the state of its render (Context, emitters, position)
  heap,       \* the PromptEngMeta objects allocated so far, by reference
  cache,      \* the parse cache of the Liquid engine (parsed partial files, by path)
  filters,    \* the filter table of the Liquid engine
  files,      \* the text of the partial file a template can {% render %}
  engine,     \* the PromptEngine over the parser: its template map and the calls made on it
  runner      \* the TestRunner over the engine: its providers, the test file, the run

vars == <<template, plan, call, heap, cache, filters, files, engine, runner>>

EmptyMeta == [constraints |-> <<>>, sections |-> <<>>]
Scope(hasW, w, meta) == [hasW |-> hasW, w |-> w, meta |-> meta]
Frame(tag, tpls, em, name, meta, coll, sc) ==
  [tag |-> tag, tpls |-> tpls, i |-> 1, em |-> em, name |-> name, meta |-> meta,
   buf |-> <<>>, coll |-> coll, k |-> 1, sc |-> sc]

\* `earlier` (the calls that had settled when this one began), `began` (the
\* filter table at that moment) and `hit` (whether it took a parse from the
\* cache) record the history of the run.
NoResult == [text |-> <<>>, constraints |-> <<>>, sections |-> <<>>]
IdleCall ==
  [st |-> "idle", meta |-> 0, scopes |-> <<>>, frames |-> <<>>, text |-> <<>>,
   err |-> NoError, ret |-> NoResult, earlier |-> {}, began |-> ConstructorFilters,
   hit |-> FALSE]

\* A run in which no PromptEngine is involved.
NoEngine == [templates |-> <<>>, req |-> <<>>]
\* A run in which no TestRunner is involved.
NoRunner == [st |-> "none"]

\* ------------------------------------------------------------------ Context
Max(S) == CHOOSE x \in S : \A y \in S : y <= x

\* Context.get([key]): scopes from the top of the stack, then the environments
\* (the scope object handed to parseAndRender), then the empty globals.
CtxGet(scopes, env, key) ==
  IF key = <<"w">> THEN
    LET hits == {j \in 1..Len(scopes) : scopes[j].hasW}
    IN IF hits = {} THEN Undefined ELSE scopes[Max(hits)].w
  ELSE IF key = <<"words">> THEN env
  ELSE Undefined

\* ctx.get(['__promptengMeta']): 0 stands for undefined.
MetaInScopeShared(scopes, envMeta) == Len(heap)
MetaInScope(scopes, envMeta) ==
  LET hits == {j \in 1..Len(scopes) : scopes[j].meta # 0}
  IN IF hits = {} THEN envMeta ELSE scopes[Max(hits)].meta

\* `meta = { constraints: [], sections: {} }`: a new object.
FreshMetaReused(hp) == 1
FreshMeta(hp) == Len(hp) + 1

\* toEnumerable of LiquidJS, applied to the collection of a for tag.
ToEnumerable(x) ==
  CASE x.ty = "array" -> x.items
    [] x.ty = "string" /\ x.v # <<>> -> <<x>>
    [] OTHER -> <<>>

\* ------------------------------------------------------------------ must_include_each
RECURSIVE Split(_, _)
Split(s, sep) ==
  LET at == {j \in 1..Len(s) : s[j] = sep}
  IN IF at = {} THEN <<s>>
     ELSE LET j == CHOOSE x \in at : \A y \in at : x <= y
          IN <<SubSeq(s, 1, j - 1)>> \o Split(SubSeq(s, j + 1, Len(s)), sep)

RECURSIVE Trim(_)
Trim(s) ==
  IF s = <<>> THEN s
  ELSE IF s[1] = " " THEN Trim(Tail(s))
  ELSE IF s[Len(s)] = " " THEN Trim(SubSeq(s, 1, Len(s) - 1))
  ELSE s

SelectNonEmpty(ss) == SelectSeq(ss, LAMBDA p : p # <<>>)

WordsOfReversed(raw) ==
  IF raw.ty = "array" THEN [i \in 1..Len(raw.items) |-> String(raw.items[Len(raw.items) + 1 - i])]
  ELSE <<>>
WordsOfUntrimmed(raw) ==
  IF raw.ty = "array" THEN [i \in 1..Len(raw.items) |-> String(raw.items[i])]
  ELSE IF raw.ty = "string" THEN SelectNonEmpty(Split(raw.v, ","))
  ELSE <<>>
WordsOf(raw) ==
  IF raw.ty = "array" THEN [i \in 1..Len(raw.items) |-> String(raw.items[i])]
  ELSE IF raw.ty = "string" THEN
    LET pieces == Split(raw.v, ",")
    IN SelectNonEmpty([i \in 1..Len(pieces) |-> Trim(pieces[i])])
  ELSE <<>>

Constraint(words) == [type |-> "must_include_each", words |-> words]

PushConstraintSkipEmpty(cons, words) == IF words = <<>> THEN cons ELSE Append(cons, Constraint(words))
PushConstraintFront(cons, words) == <<Constraint(words)>> \o cons
PushConstraint(cons, words) == Append(cons, Constraint(words))

LeadIn == "IMPORTANT: You MUST use EACH of these words at least once: "
Sentence(words) ==
  IF Len(words) > 0 THEN <<LeadIn>> \o JoinWith(words, <<", ">>) \o <<".">>
  ELSE <<>>

\* ------------------------------------------------------------------ section
\* Quoted or bare argument, taken literally.
IsQuoted(arg, q) == Len(arg) > 0 /\ arg[1] = q /\ arg[Len(arg)] = q
SectionNameRaw(arg) == arg
SectionName(arg) ==
  IF IsQuoted(arg, "\"") \/ IsQuoted(arg, "'") THEN SubSeq(arg, 2, Len(arg) - 1) ELSE arg

\* The emitter the children of a section render into: a new CaptureEmitter,
\* identified by the position of the section's frame.
SectionEmitterOuter(outer, pos) == outer
SectionEmitter(outer, pos) == pos

\* meta.sections[name] = buffer; the map keeps its keys in insertion order.
SetSectionKeepFirst(secs, name, buf) ==
  IF \E j \in 1..Len(secs) : secs[j].name = name THEN secs
  ELSE Append(secs, [name |-> name, text |-> buf])
SetSection(secs, name, buf) ==
  IF \E j \in 1..Len(secs) : secs[j].name = name
  THEN [j \in 1..Len(secs) |-> IF secs[j].name = name THEN [name |-> name, text |-> buf] ELSE secs[j]]
  ELSE Append(secs, [name |-> name, text |-> buf])

HasSection(secs, name) == \E j \in 1..Len(secs) : secs[j].name = name
SectionText(secs, name) == secs[CHOOSE j \in 1..Len(secs) : secs[j].name = name].text

\* ------------------------------------------------------------------ render steps
Top(c) == call[c].frames[Len(call[c].frames)]
AtNode(c, t) ==
  /\ call[c].st = "run"
  /\ Top(c).i <= Len(Top(c).tpls)
  /\ Top(c).tpls[Top(c).i].t = t
AtEnd(c, tag) ==
  /\ call[c].st = "run"
  /\ Top(c).i > Len(Top(c).tpls)
  /\ Top(c).tag = tag
CurrentNode(c) == Top(c).tpls[Top(c).i]

Advance(cr) == [cr EXCEPT !.frames[Len(cr.frames)].i = @ + 1]
PopFrame(cr) == [cr EXCEPT !.frames = SubSeq(@, 1, Len(@) - 1)]
\* A write that would put the new piece before what is already there.
WriteFront(cr, em, s) ==
  IF em = 0 THEN [cr EXCEPT !.text = s \o @] ELSE [cr EXCEPT !.frames[em].buf = s \o @]
\* emitter.write(html): emitter 0 is the render's own, any other the CaptureEmitter
\* of the section whose frame sits at that position.
Write(cr, em, s) ==
  IF em = 0 THEN [cr EXCEPT !.text = @ \o s] ELSE [cr EXCEPT !.frames[em].buf = @ \o s]

\* Where renderTemplates writes the string a tag's render returned: the emitter
\* it was called with.
TagEmitterPrimary(em) == 0
TagEmitter(em) == em

\* let meta = ctx.get(['__promptengMeta']); if (!meta) { meta = {...}; ctx.push({ __promptengMeta: meta }) }
EnsureMeta(cr, hp) ==
  LET found == MetaInScope(cr.scopes, cr.meta)
  IN IF found # 0 THEN [ref |-> found, scopes |-> cr.scopes, heap |-> hp]
     ELSE [ref |-> FreshMeta(hp),
           scopes |-> Append(cr.scopes, Scope(FALSE, Undefined, FreshMeta(hp))),
           heap |-> Append(hp, EmptyMeta)]

\* The entry the engine keeps for a parsed partial file (cache: true).
CacheStoreStale(nodes) == [full |-> TRUE, tpls |-> <<>>]
CacheStore(nodes) == [full |-> TRUE, tpls |-> nodes]

\* render / renderWithMeta up to the first suspension: the meta object, the scope
\* and parseAndRender's synchronous parse of the string it is handed.  Without
\* renderWithMeta's own meta the environment holds whatever the caller passed
\* under __promptengMeta (plan[c].given, 0 for no such key).
StartWith(c, pl, text) ==
  LET withMeta == pl.kind = "renderWithMeta"
      parsed == Parse(text)
      begun == [call[c] EXCEPT !.meta = IF withMeta THEN FreshMeta(heap) ELSE pl.given,
                               !.earlier = {d \in Calls : call[d].st \in {"done", "failed"}},
                               !.began = filters]
  IN /\ heap' = IF withMeta THEN Append(heap, EmptyMeta) ELSE heap
     /\ call' = [call EXCEPT ![c] =
          IF parsed.err # NoError
          THEN [begun EXCEPT !.st = "failed", !.err = parsed.err]
          ELSE [begun EXCEPT !.st = "run",
                             !.scopes = <<Scope(FALSE, Undefined, 0)>>,
                             !.frames = <<Frame("root", BindFilters(parsed.nodes, filters),
                                                0, <<>>, 0, <<>>, 0)>>]]

\* The parser called directly with the template text of the run.
Start(c) ==
  /\ call[c].st = "idle"
  /\ plan[c].kind # "none"
  /\ StartWith(c, plan[c], template)
  /\ UNCHANGED <<runner, filters, files, engine, template, plan, cache>>

\* An HTML template: emitter.write(str).
RenderText(c) ==
  /\ AtNode(c, "text")
  /\ call' = [call EXCEPT ![c] = Advance(Write(call[c], Top(c).em, CurrentNode(c).arg))]
  /\ UNCHANGED <<runner, filters, files, engine, template, plan, heap, cache>>

\* MustIncludeEachTag.render, and renderTemplates writing the string it returns.
RenderMustIncludeEach(c) ==
  /\ AtNode(c, "must_include_each")
  /\ LET raw == CtxGet(call[c].scopes, plan[c].vars, CurrentNode(c).arg)
         words == WordsOf(raw)
         got == EnsureMeta(call[c], heap)
         ctx == [call[c] EXCEPT !.scopes = got.scopes]
     IN /\ heap' = [got.heap EXCEPT ![got.ref].constraints = PushConstraint(@, words)]
        /\ call' = [call EXCEPT ![c] = Advance(Write(ctx, TagEmitter(Top(c).em), Sentence(words)))]
  /\ UNCHANGED <<runner, filters, files, engine, template, plan, cache>>

\* SectionTag.render up to its yield: the name, the meta object, a new
\* CaptureEmitter, and the children handed to renderTemplates.
EnterSection(c) ==
  /\ AtNode(c, "section")
  /\ LET got == EnsureMeta(call[c], heap)
         pos == Len(call[c].frames) + 1
         f == Frame("section", CurrentNode(c).body, SectionEmitter(Top(c).em, pos),
                    SectionName(CurrentNode(c).arg), got.ref, <<>>, 0)
         ctx == [Advance(call[c]) EXCEPT !.scopes = got.scopes]
     IN /\ heap' = got.heap
        /\ call' = [call EXCEPT ![c] = [ctx EXCEPT !.frames = Append(@, f)]]
  /\ UNCHANGED <<runner, filters, files, engine, template, plan, cache>>

\* SectionTag.render after its yield: meta.sections[name] = emitter.buffer; return ''.
LeaveSection(c) ==
  /\ AtEnd(c, "section")
  /\ heap' = [heap EXCEPT ![Top(c).meta].sections = SetSection(@, Top(c).name, Top(c).buf)]
  /\ call' = [call EXCEPT ![c] = PopFrame(call[c])]
  /\ UNCHANGED <<runner, filters, files, engine, template, plan, cache>>

\* ForTag.render: the collection, ctx.push(scope), the first item.
EnterFor(c) ==
  /\ AtNode(c, "for")
  /\ LET coll == ToEnumerable(CtxGet(call[c].scopes, plan[c].vars, CurrentNode(c).arg))
         f == Frame("for", CurrentNode(c).body, Top(c).em, <<>>, 0, coll, Len(call[c].scopes) + 1)
     IN call' = [call EXCEPT ![c] =
          IF Len(coll) = 0 THEN Advance(call[c])
          ELSE [Advance(call[c]) EXCEPT !.scopes = Append(@, Scope(TRUE, coll[1], 0)),
                                        !.frames = Append(@, f)]]
  /\ UNCHANGED <<runner, filters, files, engine, template, plan, heap, cache>>

\* ForTag.render: scope[variable] = item for the next item of the collection.
NextIteration(c) ==
  /\ AtEnd(c, "for")
  /\ Top(c).k < Len(Top(c).coll)
  /\ LET f == Top(c)
         d == Len(call[c].frames)
     IN call' = [call EXCEPT ![c] =
          [call[c] EXCEPT !.scopes[f.sc].w = f.coll[f.k + 1],
                          !.frames[d].k = f.k + 1,
                          !.frames[d].i = 1]]
  /\ UNCHANGED <<runner, filters, files, engine, template, plan, heap, cache>>

\* ForTag.render after the last item: ctx.pop() removes the top scope.
LeaveFor(c) ==
  /\ AtEnd(c, "for")
  /\ Top(c).k >= Len(Top(c).coll)
  /\ call' = [call EXCEPT ![c] =
       [PopFrame(call[c]) EXCEPT !.scopes = SubSeq(@, 1, Len(@) - 1)]]
  /\ UNCHANGED <<runner, filters, files, engine, template, plan, heap, cache>>

\* IfTag.render: the branch is rendered when the condition is truthy.
EnterIf(c) ==
  /\ AtNode(c, "if")
  /\ LET cond == CtxGet(call[c].scopes, plan[c].vars, CurrentNode(c).arg)
         f == Frame("if", CurrentNode(c).body, Top(c).em, <<>>, 0, <<>>, 0)
     IN call' = [call EXCEPT ![c] =
          IF IsTruthy(cond) THEN [Advance(call[c]) EXCEPT !.frames = Append(@, f)]
          ELSE Advance(call[c])]
  /\ UNCHANGED <<runner, filters, files, engine, template, plan, heap, cache>>

LeaveIf(c) ==
  /\ AtEnd(c, "if")
  /\ call' = [call EXCEPT ![c] = PopFrame(call[c])]
  /\ UNCHANGED <<runner, filters, files, engine, template, plan, heap, cache>>

\* The promise of parseAndRender resolves with the emitter's buffer; `ret` is what
\* the caller is handed at that moment: { text, meta } or the text alone.
Finish(c) ==
  /\ AtEnd(c, "root")
  /\ call' = [call EXCEPT ![c] =
       [@ EXCEPT !.st = "done", !.frames = <<>>, !.scopes = <<>>,
                 !.ret = IF plan[c].kind = "renderWithMeta"
                         THEN [text |-> call[c].text,
                               constraints |-> heap[call[c].meta].constraints,
                               sections |-> heap[call[c].meta].sections]
                         ELSE [NoResult EXCEPT !.text = call[c].text]]]
  /\ UNCHANGED <<runner, filters, files, engine, template, plan, heap, cache>>

Next ==
  \E c \in Calls :
    \/ Start(c)
    \/ RenderText(c)
    \/ RenderMustIncludeEach(c)
    \/ EnterSection(c)
    \/ LeaveSection(c)
    \/ EnterFor(c)
    \/ NextIteration(c)
    \/ LeaveFor(c)
    \/ EnterIf(c)
    \/ LeaveIf(c)
    \/ Finish(c)

\* ------------------------------------------------------------------ outputs, filters, partials
\* {{ words }}, {{ words | default: 'fb' }}, {{ words | shout }}
OutputTokens ==
  {Tok("output", <<"words">>), Tok("output", <<"words", "default">>), Tok("output", <<"words", "shout">>)}
\* {% render 'p' %}
PartialToken == Tok("render", <<"p">>)
Fallback == StrVal(<<"fb">>)

\* The `default` filter registered by the constructor.
DefaultFilterFalsy(val, def) == IF ~IsTruthy(val) THEN def ELSE val
DefaultFilter(val, def) ==
  IF val.ty = "undefined" \/ val.ty = "null" \/ (val.ty = "string" /\ val.v = <<>>) THEN def ELSE val

\* A filter registered by the user of the parser: here one that ignores its input.
UserFilter(val, def) == StrVal(<<"user">>)

\* Filter.render: the handler bound at parse time applied to the value so far.
ApplyFilter(name, handler, val, def) ==
  CASE handler = "identity" -> val
    [] handler = "user" -> UserFilter(val, def)
    [] handler = "ctor" /\ name = "default" -> DefaultFilter(val, def)
    [] OTHER -> val

\* stringify of LiquidJS, used by the emitter of a render: nil gives '', an
\* array the concatenation of its elements.
Stringify(x) ==
  CASE x.ty \in {"undefined", "null"} -> <<>>
    [] x.ty = "array" -> JoinWith([i \in 1..Len(x.items) |-> x.items[i].v], <<>>)
    [] OTHER -> x.v

\* What emitter.write(val) appends: the render's emitter stringifies, the
\* CaptureEmitter of a section does `buffer += val`.
Written(em, val) == IF em = 0 THEN Stringify(val) ELSE String(val)

\* A partial is rendered in a Context of its own (ctx.spawn()): the caller's
\* bindings and the scopes of the including template are not visible in it.
InPartial(c) == \E q \in 1..Len(call[c].frames) : call[c].frames[q].tag = "partial"
OutputValue(c) ==
  LET n == CurrentNode(c)
      raw == IF InPartial(c) THEN Undefined ELSE CtxGet(call[c].scopes, plan[c].vars, <<n.arg[1]>>)
  IN IF Len(n.arg) = 3 THEN ApplyFilter(n.arg[2], n.arg[3], raw, Fallback) ELSE raw

\* Output.render: the value, its filters, emitter.write(val).
RenderOutput(c) ==
  /\ AtNode(c, "output")
  /\ call' = [call EXCEPT ![c] =
       Advance(Write(call[c], Top(c).em, Written(Top(c).em, OutputValue(c))))]
  /\ UNCHANGED <<runner, filters, files, engine, template, plan, heap, cache>>

\* The render tag: the partial's templates come from the cache when the file
\* was parsed before, otherwise the file is parsed with the filters registered
\* now and the result is cached.
RenderPartial(c) ==
  /\ AtNode(c, "render")
  /\ LET tpls == IF cache.full THEN cache.tpls ELSE BindFilters(Parse(files).nodes, filters)
         f == Frame("partial", tpls, Top(c).em, <<>>, 0, <<>>, 0)
     IN /\ call' = [call EXCEPT ![c] =
             [Advance(call[c]) EXCEPT !.frames = Append(@, f), !.hit = @ \/ cache.full]]
        /\ cache' = IF cache.full THEN cache ELSE CacheStore(tpls)
  /\ UNCHANGED <<runner, filters, files, engine, template, plan, heap>>

LeavePartial(c) ==
  /\ AtEnd(c, "partial")
  /\ call' = [call EXCEPT ![c] = PopFrame(call[c])]
  /\ UNCHANGED <<runner, filters, files, engine, template, plan, heap, cache>>

\* registerFilter(name, fn) after construction.
RegisterFilter(name) ==
  /\ filters' = [filters EXCEPT ![name] = "user"]
  /\ UNCHANGED <<runner, files, engine, template, plan, call, heap, cache>>

\* The walk over every kind of template the model knows.
NextOut ==
  \/ Next
  \/ \E c \in Calls : RenderOutput(c)
  \/ \E c \in Calls : RenderPartial(c)
  \/ \E c \in Calls : LeavePartial(c)

\* ------------------------------------------------------------------ upper
\* {% upper w %}, {% upper words %}
UpperTokens == {Tok("upper", <<"w">>), Tok("upper", <<"words">>)}
UpperAtom(x) ==
  CASE x = "a" -> "A"
    [] x = "t" -> "T"
    [] x = "undefined" -> "UNDEFINED"
    [] x = "null" -> "NULL"
    [] OTHER -> x
\* s.toUpperCase()
ToUpperCase(s) == [i \in 1..Len(s) |-> UpperAtom(s[i])]

\* UpperTag.render, and renderTemplates writing the string it returns.
RenderUpper(c) ==
  /\ AtNode(c, "upper")
  /\ LET str == CtxGet(call[c].scopes, plan[c].vars, CurrentNode(c).arg)
     IN call' = [call EXCEPT ![c] =
          Advance(Write(call[c], TagEmitter(Top(c).em), ToUpperCase(String(str))))]
  /\ UNCHANGED <<runner, filters, files, engine, template, plan, heap, cache>>

NextUpper ==
  \/ Next
  \/ \E c \in Calls : RenderUpper(c)

\* ------------------------------------------------------------------ PromptEngine
\* Names a caller may pass: the one loaded template and a name not in the map.
TemplateNames == {"greet", "missing"}
VarNames == {"words", "name", "toString"}
\* Properties every object literal inherits from Object.prototype.
ObjectPrototype == {"toString", "constructor"}
VarDef(name, required) == [name |-> name, required |-> required]
\* The caller's variables object: its own keys and the value bound to `words`.
Variables(keys) ==
  [keys |-> keys,
   words |-> IF "words" \in keys THEN ArrVal(<<StrVal(<<"a">>), NumVal(<<"2">>)>>) ELSE Undefined]
VariablesObjects == {Variables(K) : K \in SUBSET {"words", "name"}}

\* this.templates.get(templateName)
Lookup(templates, name) == name \in DOMAIN templates
TemplateNotFoundShort(name) == <<"Template not found.">>
TemplateNotFound(name) == <<"Template '", name, "' not found.">>

\* varDef.name in variables
In(name, variables) == name \in variables.keys \cup ObjectPrototype
MissingRequired(name) == <<"Missing required variable: '", name, "'">>

\* validateVariables after the lookup: one message per required definition whose
\* name is not in variables, in the order of template.variables.
RECURSIVE ValidationErrors(_, _)
ValidationErrors(defs, variables) ==
  IF defs = <<>> THEN <<>>
  ELSE (IF Head(defs).required /\ ~In(Head(defs).name, variables)
        THEN <<MissingRequired(Head(defs).name)>> ELSE <<>>)
       \o ValidationErrors(Tail(defs), variables)
ValidationResult(defs, variables) ==
  LET errors == ValidationErrors(defs, variables)
  IN [valid |-> Len(errors) = 0, errors |-> errors]

\* `this.validateVariables(templateName, variables);` as a statement of render
\* and renderWithMeta: the ValidationResult it returns is dropped.
AfterValidationStrict(result) == IF result.valid THEN "render" ELSE "throw"
AfterValidation(result) == "render"

\* renderMulti after renderWithMeta: Object.keys(sections).length === 0 ? { prompt: text } : sections
RenderMultiSections(text, sections) == sections
RenderMulti(text, sections) ==
  IF Len(sections) = 0 THEN <<[name |-> <<"prompt">>, text |-> text]>> ELSE sections

\* TestRunner.runSingleTest: the prompt handed to provider.complete.
PromptJoined(text, sections) ==
  IF Len(sections) > 0
  THEN JoinWith([j \in 1..Len(sections) |-> sections[j].text], <<"\n\n">>)
  ELSE text
Prompt(text, sections) ==
  IF Len(sections) > 0
  THEN IF HasSection(sections, <<"prompt">>) THEN SectionText(sections, <<"prompt">>)
       ELSE JoinWith([j \in 1..Len(sections) |-> sections[j].text], <<"\n\n">>)
  ELSE text

NoOut == [kind |-> "none"]
\* st: "none" (no call will be made), "idle" (not called yet), "waiting" (the
\* parser is rendering), "returned", "thrown", "caught" (by runSingleTest).
Request(op, name, variables, st, out, err) ==
  [op |-> op, name |-> name, variables |-> variables, st |-> st, out |-> out, err |-> err]
NoRequest(st) == Request("", "", Variables({}), st, NoOut, <<>>)
MayCall(c) == engine.req[c].st = "idle" /\ call[c].st = "idle"

\* render, renderWithMeta (and through it renderMulti and runSingleTest) up to
\* the parser's first suspension: the lookup, validateVariables (its result is
\* dropped), parser.render / parser.renderWithMeta.
EngineInvoke(c, op, kind) ==
  /\ MayCall(c)
  /\ \E name \in TemplateNames, variables \in VariablesObjects :
       IF ~Lookup(engine.templates, name)
       THEN /\ engine' = [engine EXCEPT !.req[c] =
                  IF op = "runSingleTest"
                  THEN Request(op, name, variables, "caught", NoOut, TemplateNotFound(name))
                  ELSE Request(op, name, variables, "thrown", NoOut, TemplateNotFound(name))]
            /\ UNCHANGED <<plan, call, heap>>
       ELSE LET pl == [kind |-> kind, vars |-> variables.words, given |-> 0]
                result == ValidationResult(engine.templates[name].variables, variables)
            IN IF AfterValidation(result) = "throw"
               THEN /\ engine' = [engine EXCEPT !.req[c] =
                          Request(op, name, variables,
                                  IF op = "runSingleTest" THEN "caught" ELSE "thrown",
                                  NoOut, result.errors[1])]
                    /\ UNCHANGED <<plan, call, heap>>
               ELSE /\ engine' = [engine EXCEPT !.req[c] = Request(op, name, variables, "waiting", NoOut, <<>>)]
                    /\ plan' = [plan EXCEPT ![c] = pl]
                    /\ StartWith(c, pl, engine.templates[name].content)
  /\ UNCHANGED <<runner, filters, files, template, cache>>

EngineRender(c) == EngineInvoke(c, "render", "render")
EngineRenderWithMeta(c) == EngineInvoke(c, "renderWithMeta", "renderWithMeta")
EngineRenderMulti(c) == EngineInvoke(c, "renderMulti", "renderWithMeta")
RunSingleTest(c) == EngineInvoke(c, "runSingleTest", "renderWithMeta")

EngineValidateVariables(c) ==
  /\ MayCall(c)
  /\ \E name \in TemplateNames, variables \in VariablesObjects :
       engine' = [engine EXCEPT !.req[c] =
         IF ~Lookup(engine.templates, name)
         THEN Request("validateVariables", name, variables, "thrown", NoOut, TemplateNotFound(name))
         ELSE Request("validateVariables", name, variables, "returned",
                      ValidationResult(engine.templates[name].variables, variables), <<>>)]
  /\ UNCHANGED <<runner, filters, files, template, plan, call, heap, cache>>

\* The rest of the method once the parser's promise has settled.
EngineReturn(c) ==
  /\ engine.req[c].st = "waiting"
  /\ call[c].st \in {"done", "failed"}
  /\ LET r == engine.req[c]
         got == call[c].ret
     IN engine' = [engine EXCEPT !.req[c] =
          IF call[c].st = "failed"
          THEN [r EXCEPT !.st = IF r.op = "runSingleTest" THEN "caught" ELSE "thrown",
                         !.err = <<call[c].err.kind>>]
          ELSE [r EXCEPT !.st = "returned",
                         !.out = CASE r.op = "render" -> [text |-> got.text]
                                   [] r.op = "renderWithMeta" ->
                                        [text |-> got.text, sections |-> got.sections,
                                         constraints |-> got.constraints]
                                   [] r.op = "renderMulti" ->
                                        [sections |-> RenderMulti(got.text, got.sections)]
                                   [] OTHER -> [sent |-> Prompt(got.text, got.sections)]]]
  /\ UNCHANGED <<runner, filters, files, template, plan, call, heap, cache>>

\* ------------------------------------------------------------------ one render, run alone
\* What renderWithMeta(template, variables) returns when nothing else runs: the
\* tags' render methods composed in source order over one Context (w: the loop
\* variable in scope, env: the caller's binding) and one meta object.
ScopeGet(key, w, env) ==
  IF key = <<"w">> THEN w ELSE IF key = <<"words">> THEN env ELSE Undefined

RECURSIVE RunTemplates(_, _, _, _)
RECURSIVE RunLoop(_, _, _, _, _)
RunLoop(body, coll, k, env, acc) ==
  IF k > Len(coll) THEN acc
  ELSE RunLoop(body, coll, k + 1, env, RunTemplates(body, coll[k], env, acc))

RunTemplates(tpls, w, env, acc) ==
  IF tpls = <<>> THEN acc
  ELSE LET n == Head(tpls)
           after ==
             CASE n.t = "text" -> [acc EXCEPT !.text = @ \o n.arg]
               [] n.t = "must_include_each" ->
                    LET words == WordsOf(ScopeGet(n.arg, w, env))
                    IN [acc EXCEPT !.text = @ \o Sentence(words),
                                   !.constraints = PushConstraint(@, words)]
               [] n.t = "section" ->
                    LET inner == RunTemplates(n.body, w, env, [acc EXCEPT !.text = <<>>])
                    IN [text |-> acc.text,
                        constraints |-> inner.constraints,
                        sections |-> SetSection(inner.sections, SectionName(n.arg), inner.text)]
               [] n.t = "for" ->
                    RunLoop(n.body, ToEnumerable(ScopeGet(n.arg, w, env)), 1, env, acc)
               [] n.t = "if" ->
                    IF IsTruthy(ScopeGet(n.arg, w, env)) THEN RunTemplates(n.body, w, env, acc)
                    ELSE acc
       IN RunTemplates(Tail(tpls), w, env, after)

RenderWithMetaResult(tpls, env) ==
  RunTemplates(tpls, Undefined, env, [text |-> <<>>, constraints |-> <<>>, sections |-> <<>>])

\* What a finished call handed back to its caller.
Returned(c) == call[c].ret

\* ------------------------------------------------------------------ TestRunner
\* responseText.includes(value)
Includes(s, sub) == \E j \in 1..(Len(s) - Len(sub) + 1) : SubSeq(s, j, j + Len(sub) - 1) = sub

\* An assertion of the test file is an object: the sequence of its entries
\* <<key, value>> in the order of its keys.
Entry(key, value) == <<key, value>>
\* Object.keys(assertion)[0] and assertion[key]
FirstKey(assertion) == IF Len(assertion) = 0 THEN "undefined" ELSE assertion[1][1]
FirstValue(assertion) == IF Len(assertion) = 0 THEN <<"undefined">> ELSE assertion[1][2]

AssertionResult(description, passed) == [description |-> description, passed |-> passed]
\* The switch of validateAssertions for one assertion.
ValidateOneUnknownPasses(responseText, assertion) ==
  LET key == FirstKey(assertion)
      value == FirstValue(assertion)
  IN CASE key = "contains" ->
            AssertionResult(<<"contains \"">> \o value \o <<"\"">>, Includes(responseText, value))
       [] key = "not_contains" ->
            AssertionResult(<<"not_contains \"">> \o value \o <<"\"">>, ~Includes(responseText, value))
       [] OTHER -> AssertionResult(<<"unknown assertion \"", key, "\"">>, TRUE)
ValidateOne(responseText, assertion) ==
  LET key == FirstKey(assertion)
      value == FirstValue(assertion)
  IN CASE key = "contains" ->
            AssertionResult(<<"contains \"">> \o value \o <<"\"">>, Includes(responseText, value))
       [] key = "not_contains" ->
            AssertionResult(<<"not_contains \"">> \o value \o <<"\"">>, ~Includes(responseText, value))
       [] OTHER -> AssertionResult(<<"unknown assertion \"", key, "\"">>, FALSE)
\* validateAssertions: results.push(...) once per assertion, in the order of the list.
ValidateAssertions(responseText, assertions) ==
  [i \in 1..Len(assertions) |-> ValidateOne(responseText, assertions[i])]
\* assertionResults.every(a => a.passed)
Every(assertionResults) == \A i \in 1..Len(assertionResults) : assertionResults[i].passed

TestCase(name, variables, assertions) == [name |-> name, variables |-> variables, assertions |-> assertions]
\* A configured AIProvider: its name and models[0].
Provider(name, model) == [name |-> name, model |-> model]
\* (pConfig.name || '').split('-')[0]
BaseName(name) ==
  LET at == {j \in 1..Len(name) : name[j] = "-"}
  IN IF at = {} THEN name ELSE SubSeq(name, 1, (CHOOSE j \in at : \A k \in at : j <= k) - 1)
\* this.providers.find(p => p.name === baseName), else this.providers[0]
FindProvider(providers, baseName) ==
  LET hits == {j \in 1..Len(providers) : providers[j].name = baseName}
  IN IF hits = {} THEN providers[1] ELSE providers[CHOOSE j \in hits : \A k \in hits : j <= k]
\* getProvidersToTest once this.providers is known not to be empty; `requested`
\* is testConfig.providers, absent from the file or a list of { name, model }
\* (model "" when the file gives none).
GetProvidersToTest(providers, requested) ==
  IF ~requested.given THEN providers
  ELSE [j \in 1..Len(requested.list) |->
          LET provider == FindProvider(providers, BaseName(requested.list[j].name))
          IN Provider(provider.name,
                      IF requested.list[j].model # "" THEN requested.list[j].model ELSE provider.model)]
ProviderLabel(sel) == <<sel.name, " (", sel.model, ")">>

\* The TestResult of the try branch and of the catch branch of runSingleTest.
Asserted(testCase, sel, assertionResults) ==
  [testCase |-> testCase.name, provider |-> ProviderLabel(sel), settled |-> "asserted",
   success |-> Every(assertionResults), assertions |-> assertionResults, error |-> <<>>]
Caught(testCase, sel, message) ==
  [testCase |-> testCase.name, provider |-> ProviderLabel(sel), settled |-> "caught",
   success |-> FALSE, assertions |-> <<>>, error |-> message]

\* st: "idle" (runTests not called yet), "loop" (between two pairs), "completing"
\* (provider.complete pending), "returned", "thrown".  `texts` keeps, per result,
\* the completion the provider gave (<<>> when there was none).
Runner(providers, name, requested, tests) ==
  [st |-> "idle", providers |-> providers, template |-> name, requested |-> requested,
   tests |-> tests, selected |-> <<>>, i |-> 1, j |-> 1, sent |-> <<>>, results |-> <<>>,
   texts |-> <<>>, err |-> <<>>]
AtPair(r) == r.st = "loop" /\ r.i <= Len(r.tests) /\ Len(r.selected) > 0
\* results.push(result) and the step of the two for loops.
PushedFront(r, result, text) ==
  [r EXCEPT !.st = "loop", !.results = <<result>> \o @, !.texts = <<text>> \o @,
            !.i = IF r.j < Len(r.selected) THEN r.i ELSE r.i + 1,
            !.j = IF r.j < Len(r.selected) THEN r.j + 1 ELSE 1]
Pushed(r, result, text) ==
  [r EXCEPT !.st = "loop", !.results = Append(@, result), !.texts = Append(@, text),
            !.i = IF r.j < Len(r.selected) THEN r.i ELSE r.i + 1,
            !.j = IF r.j < Len(r.selected) THEN r.j + 1 ELSE 1]

\* runTests up to its first runSingleTest: loadTestConfig, getProvidersToTest.
RunTests ==
  /\ runner.st = "idle"
  /\ runner' =
       IF Len(runner.providers) = 0
       THEN [runner EXCEPT !.st = "thrown", !.err = <<"No AI providers are configured.">>]
       ELSE [runner EXCEPT !.st = "loop",
                           !.selected = GetProvidersToTest(runner.providers, runner.requested)]
  /\ UNCHANGED <<template, plan, call, heap, cache, filters, files, engine>>

\* runSingleTest for the next pair up to provider.complete: the engine's
\* renderWithMeta (lookup, validation dropped, the parser's render) and the
\* choice of the prompt; an error thrown on the way is caught and recorded.
RunSingleTestRender ==
  /\ AtPair(runner)
  /\ LET testCase == runner.tests[runner.i]
         sel == runner.selected[runner.j]
         name == runner.template
         parsed == Parse(engine.templates[name].content)
         got == RenderWithMetaResult(parsed.nodes, testCase.variables.words)
     IN runner' =
          IF ~Lookup(engine.templates, name)
          THEN Pushed(runner, Caught(testCase, sel, TemplateNotFound(name)), <<>>)
          ELSE IF parsed.err # NoError
          THEN Pushed(runner, Caught(testCase, sel, <<parsed.err.kind>>), <<>>)
          ELSE [runner EXCEPT !.st = "completing", !.sent = Prompt(got.text, got.sections)]
  /\ UNCHANGED <<template, plan, call, heap, cache, filters, files, engine>>

\* What provider.complete may settle with: a completion text or a rejection.
Completions == {<<>>, <<"x">>, <<"y", "x">>}
Rejected == <<"provider error">>

\* The rest of runSingleTest once provider.complete has settled, results.push.
RunSingleTestComplete ==
  /\ runner.st = "completing"
  /\ LET testCase == runner.tests[runner.i]
         sel == runner.selected[runner.j]
     IN \/ \E text \in Completions :
             runner' = Pushed(runner, Asserted(testCase, sel, ValidateAssertions(text, testCase.assertions)), text)
        \/ runner' = Pushed(runner, Caught(testCase, sel, Rejected), <<>>)
  /\ UNCHANGED <<template, plan, call, heap, cache, filters, files, engine>>

\* return new TestResults(results)
RunTestsReturn ==
  /\ runner.st = "loop"
  /\ ~AtPair(runner)
  /\ runner' = [runner EXCEPT !.st = "returned"]
  /\ UNCHANGED <<template, plan, call, heap, cache, filters, files, engine>>

\* TestResults.passed and TestResults.failed
Passed(results) == Len(SelectSeq(results, LAMBDA r : r.success))
Failed(results) == Len(SelectSeq(results, LAMBDA r : ~r.success))

NextRunner ==
  \/ RunTests
  \/ RunSingleTestRender
  \/ RunSingleTestComplete
  \/ RunTestsReturn

\* ------------------------------------------------------------------ specifications
NoPlan == [kind |-> "none", vars |-> Undefined, given |-> 0]
\* A parser just constructed, no call made on it yet.
InitParser ==
  /\ call = [c \in Calls |-> IdleCall]
  /\ cache = [full |-> FALSE, tpls |-> <<>>]
  /\ filters = ConstructorFilters

\* The parser used on its own: no partial file on disk, no PromptEngine over it.
InitCommon ==
  /\ InitParser
  /\ runner = NoRunner
  /\ heap = <<>>
  /\ files = <<>>
  /\ engine = NoEngine

\* One renderWithMeta call on any well-formed template.
Init ==
  /\ template \in BalancedUpTo(MaxTokens, LeafTokens, OpenTokens)
  /\ \E v \in Bindings :
       plan = [c \in Calls |-> IF c = 1 THEN [kind |-> "renderWithMeta", vars |-> v, given |-> 0] ELSE NoPlan]
  /\ InitCommon

Spec == Init /\ [][Next]_vars

\* Two renderWithMeta calls on the same parser and template text; the caller may
\* await the first before making the second, or have both in flight.
PairBindings ==
  {Undefined, ArrVal(<<>>), ArrVal(<<StrVal(<<"a">>)>>), ArrVal(<<StrVal(<<"a">>), NumVal(<<"2">>)>>)}
InitPair ==
  /\ template \in BalancedUpTo(MaxPairTokens, LeafTokens, OpenTokens)
  /\ plan \in [Calls -> {[kind |-> "renderWithMeta", vars |-> v, given |-> 0] : v \in PairBindings}]
  /\ InitCommon

SpecPair == InitPair /\ [][Next]_vars

\* render and renderWithMeta called with the same template and binding.
InitBoth ==
  /\ template \in BalancedUpTo(MaxBothTokens, LeafTokens, OpenTokens)
  /\ \E v \in Bindings :
       plan = [c \in Calls |-> [kind |-> IF c = 1 THEN "render" ELSE "renderWithMeta", vars |-> v, given |-> 0]]
  /\ InitCommon

SpecBoth == InitBoth /\ [][Next]_vars

\* One call of either operation on any template text, well-formed or not.
ParseBindings == {Undefined, ArrVal(<<StrVal(<<"a">>), NumVal(<<"2">>)>>)}
InitParse ==
  /\ template \in SeqsUpTo(Tokens, MaxParseTokens)
  /\ \E k \in {"render", "renderWithMeta"}, v \in ParseBindings :
       plan = [c \in Calls |-> IF c = 1 THEN [kind |-> k, vars |-> v, given |-> 0] ELSE NoPlan]
  /\ InitCommon

SpecParse == InitParse /\ [][Next]_vars

\* Two renderWithMeta calls with one binding on a template that may use outputs,
\* filters and a partial file.
PartialFiles == {<<Tok("text", <<"t">>)>>, <<Tok("output", <<"words", "default">>)>>}
InitPartial ==
  /\ template \in BalancedUpTo(MaxPartialTokens, LeafTokens \cup OutputTokens \cup {PartialToken}, OpenTokens)
  /\ \E v \in PairBindings :
       plan = [c \in Calls |-> [kind |-> "renderWithMeta", vars |-> v, given |-> 0]]
  /\ InitParser
  /\ runner = NoRunner
  /\ heap = <<>>
  /\ files \in PartialFiles
  /\ engine = NoEngine

SpecPartial == InitPartial /\ [][NextOut]_vars

\* One renderWithMeta call on a template whose literal text may be whitespace.
SpaceLeaves == {Tok("text", <<" ">>), Tok("text", <<"y">>), Tok("must_include_each", <<"w">>)}
InitSpace ==
  /\ template \in BalancedUpTo(MaxSpaceTokens, SpaceLeaves, OpenTokens)
  /\ \E v \in Bindings :
       plan = [c \in Calls |-> IF c = 1 THEN [kind |-> "renderWithMeta", vars |-> v, given |-> 0] ELSE NoPlan]
  /\ InitCommon

SpecSpace == InitSpace /\ [][Next]_vars

\* One call on a PromptEngine that has loaded one template, `greet`.
EngineLeaves == {Tok("text", <<"t">>), Tok("must_include_each", <<"words">>)}
EngineOpens ==
  {Tok("section", n) : n \in {<<"prompt">>, <<"a">>, <<"b">>}}
    \cup {Tok("for", <<"words">>), Tok("if", <<"words">>)}
Loaded(content, defs) ==
  [templates |-> [n \in {"greet"} |-> [content |-> content, variables |-> defs]],
   req |-> [c \in Calls |-> NoRequest(IF c = 1 THEN "idle" ELSE "none")]]
InitEngine ==
  /\ template \in BalancedUpTo(MaxEngineTokens, EngineLeaves, EngineOpens)
  /\ plan = [c \in Calls |-> NoPlan]
  /\ InitParser
  /\ runner = NoRunner
  /\ heap = <<>>
  /\ files = <<>>
  /\ \E defs \in {<<>>, <<VarDef("words", TRUE)>>} : engine = Loaded(template, defs)

NextEngine ==
  \E c \in Calls :
    \/ EngineRender(c)
    \/ EngineRenderWithMeta(c)
    \/ EngineRenderMulti(c)
    \/ RunSingleTest(c)
    \/ EngineValidateVariables(c)
    \/ EngineReturn(c)
    \/ RenderText(c)
    \/ RenderMustIncludeEach(c)
    \/ EnterSection(c)
    \/ LeaveSection(c)
    \/ EnterFor(c)
    \/ NextIteration(c)
    \/ LeaveFor(c)
    \/ EnterIf(c)
    \/ LeaveIf(c)
    \/ Finish(c)

SpecEngine == InitEngine /\ [][NextEngine]_vars

\* validateVariables on an engine whose template declares any variables.
VarDefs == {VarDef(n, r) : n \in VarNames, r \in BOOLEAN}
InitValidate ==
  /\ template = <<Tok("text", <<"t">>)>>
  /\ plan = [c \in Calls |-> NoPlan]
  /\ InitParser
  /\ runner = NoRunner
  /\ heap = <<>>
  /\ files = <<>>
  /\ \E defs \in SeqsUpTo(VarDefs, MaxDefs) : engine = Loaded(template, defs)

NextValidate == \E c \in Calls : EngineValidateVariables(c)

SpecValidate == InitValidate /\ [][NextValidate]_vars

\* One call of render or renderWithMeta whose variables may have a key
\* __promptengMeta; the object the caller put there is heap[1].
InitGiven ==
  /\ template \in BalancedUpTo(MaxGivenTokens, LeafTokens, OpenTokens)
  /\ \E k \in {"render", "renderWithMeta"}, v \in PairBindings, g \in {0, 1} :
       plan = [c \in Calls |-> IF c = 1 THEN [kind |-> k, vars |-> v, given |-> g] ELSE NoPlan]
  /\ InitParser
  /\ runner = NoRunner
  /\ heap = <<EmptyMeta>>
  /\ files = <<>>
  /\ engine = NoEngine

SpecGiven == InitGiven /\ [][Next]_vars

\* One call of either operation on any text, well-formed or not, that may use
\* outputs, filters, a partial and a tag name nobody registered; `words` is
\* bound to a value of any kind.
UnknownTag == Tok("nosuch", <<>>)
FilterInputs ==
  {Undefined, Null, StrVal(<<>>), StrVal(<<"v">>), BoolVal(FALSE), BoolVal(TRUE),
   NumVal(<<"0">>), ArrVal(<<>>), ArrVal(<<StrVal(<<"a">>), NumVal(<<"2">>)>>)}
InitOut ==
  /\ template \in SeqsUpTo(Tokens \cup OutputTokens \cup {PartialToken, UnknownTag}, MaxOutTokens)
  /\ \E k \in {"render", "renderWithMeta"}, v \in FilterInputs :
       plan = [c \in Calls |-> IF c = 1 THEN [kind |-> k, vars |-> v, given |-> 0] ELSE NoPlan]
  /\ InitParser
  /\ runner = NoRunner
  /\ heap = <<>>
  /\ files \in PartialFiles
  /\ engine = NoEngine

SpecOut == InitOut /\ [][NextOut]_vars

\* Two render calls on one parser, with registerFilter calls before, between
\* or during them.
RegisterLeaves ==
  {Tok("text", <<"t">>), Tok("must_include_each", <<"words">>), PartialToken,
   Tok("output", <<"words", "default">>), Tok("output", <<"words", "shout">>)}
InitRegister ==
  /\ template \in BalancedUpTo(MaxRegisterTokens, RegisterLeaves, OpenTokens)
  /\ plan = [c \in Calls |->
               [kind |-> "renderWithMeta", vars |-> ArrVal(<<StrVal(<<"a">>), NumVal(<<"2">>)>>),
                given |-> 0]]
  /\ InitParser
  /\ runner = NoRunner
  /\ heap = <<>>
  /\ files \in PartialFiles
  /\ engine = NoEngine

NextRegister ==
  \/ NextOut
  \/ \E name \in FilterNames : RegisterFilter(name)

SpecRegister == InitRegister /\ [][NextRegister]_vars

\* One renderWithMeta call whose `words` is a string of letters, commas and
\* blanks, a value that is neither a string nor a sequence, or a list of strings.
Chars == {"a", "b", ",", " "}
WordsBindings ==
  {Undefined, Null, NumVal(<<"2">>), BoolVal(TRUE)}
    \cup {StrVal(s) : s \in SeqsUpTo(Chars, MaxChars)}
    \cup {ArrVal(<<StrVal(<<"a", ",", "b">>), StrVal(<<" ", ",">>)>>)}
InitWords ==
  /\ template \in BalancedUpTo(MaxWordsTokens, LeafTokens, OpenTokens)
  /\ \E v \in WordsBindings :
       plan = [c \in Calls |-> IF c = 1 THEN [kind |-> "renderWithMeta", vars |-> v, given |-> 0] ELSE NoPlan]
  /\ InitCommon

SpecWords == InitWords /\ [][Next]_vars

\* One renderWithMeta call on a template whose sections are all named `words`,
\* bare, in single quotes or in double quotes, while the caller binds `words`.
NameLeaves == {Tok("text", <<"t">>), Tok("must_include_each", <<"words">>)}
NameForms == {<<"words">>, <<"'", "words", "'">>, <<"\"", "words", "\"">>}
NameOpens == {Tok("section", arg) : arg \in NameForms} \cup {Tok("for", <<"words">>), Tok("if", <<"words">>)}
NameBindings == {Undefined, StrVal(<<"x">>), ArrVal(<<StrVal(<<"a">>), NumVal(<<"2">>)>>)}
InitNames ==
  /\ template \in BalancedUpTo(MaxNameTokens, NameLeaves, NameOpens)
  /\ \E v \in NameBindings :
       plan = [c \in Calls |-> IF c = 1 THEN [kind |-> "renderWithMeta", vars |-> v, given |-> 0] ELSE NoPlan]
  /\ InitCommon

SpecNames == InitNames /\ [][Next]_vars

\* One renderWithMeta call on a template that may use the upper tag.
UpperLeaves == UpperTokens \cup {Tok("text", <<"t">>), Tok("must_include_each", <<"words">>)}
UpperOpens == {Tok("section", <<"a">>), Tok("for", <<"words">>), Tok("if", <<"words">>)}
InitUpper ==
  /\ template \in BalancedUpTo(MaxUpperTokens, UpperLeaves, UpperOpens)
  /\ \E v \in Bindings :
       plan = [c \in Calls |-> IF c = 1 THEN [kind |-> "renderWithMeta", vars |-> v, given |-> 0] ELSE NoPlan]
  /\ InitCommon

SpecUpper == InitUpper /\ [][NextUpper]_vars

\* A TestRunner over an engine that has loaded `greet`, with one provider and a
\* test file of one test case with any assertions.
AssertionObjects ==
  {<<>>, <<Entry("contains", <<"x">>), Entry("not_contains", <<"x">>)>>}
    \cup {<<Entry(k, v)>> : k \in {"contains", "not_contains", "equals"}, v \in {<<"x">>, <<"y">>}}
RunnerTemplates ==
  {<<Tok("text", <<"t">>)>>,
   <<Tok("section", <<"a">>)>>,
   <<Tok("section", <<"prompt">>), Tok("must_include_each", <<"words">>), Tok("endsection", <<>>)>>}
InitRunnerCommon ==
  /\ template \in RunnerTemplates
  /\ plan = [c \in Calls |-> NoPlan]
  /\ InitParser
  /\ heap = <<>>
  /\ files = <<>>
  /\ engine = [Loaded(template, <<>>) EXCEPT !.req = [c \in Calls |-> NoRequest("none")]]
InitAssert ==
  /\ InitRunnerCommon
  /\ \E assertions \in SeqsUpTo(AssertionObjects, MaxAssertions), keys \in SUBSET {"words"} :
       runner = Runner(<<Provider(<<"mock">>, "m0")>>, "greet", [given |-> FALSE, list |-> <<>>],
                       <<TestCase(1, Variables(keys), assertions)>>)

SpecAssert == InitAssert /\ [][NextRunner]_vars

\* A TestRunner with any providers over a test file with any number of test
\* cases, a list of providers or none, and a template name the engine may not know.
ConfiguredProviders ==
  {<<>>, <<Provider(<<"mock">>, "m0")>>, <<Provider(<<"mock">>, "m0"), Provider(<<"openai">>, "m1")>>}
RequestedProviders ==
  {[given |-> FALSE, list |-> <<>>],
   [given |-> TRUE, list |-> <<>>],
   [given |-> TRUE, list |-> <<[name |-> <<"openai", "-", "gpt">>, model |-> "gpt"]>>],
   [given |-> TRUE, list |-> <<[name |-> <<"other">>, model |-> ""], [name |-> <<"mock">>, model |-> ""]>>]}
TestFiles ==
  UNION {[1..n -> {<<>>, <<<<Entry("contains", <<"x">>)>>>>}] : n \in 0..MaxTests}
InitRunner ==
  /\ InitRunnerCommon
  /\ \E providers \in ConfiguredProviders, name \in TemplateNames,
        requested \in RequestedProviders, file \in TestFiles :
       runner = Runner(providers, name, requested,
                       [k \in 1..Len(file) |-> TestCase(k, Variables({}), file[k])])

SpecRunner == InitRunner /\ [][NextRunner]_vars

\* ------------------------------------------------------------------ vocabulary of the properties
WithMeta(c) == plan[c].kind = "renderWithMeta"
Done(c) == call[c].st = "done"
Stepped(c) == call'[c] # call[c]
SectionFrames(cr) == {q \in 1..Len(cr.frames) : cr.frames[q].tag = "section"}
EmitterText(cr, em) == IF em = 0 THEN cr.text ELSE cr.frames[em].buf
\* What the step of call c added to the emitter its current node renders into.
Emitted(c) ==
  LET before == EmitterText(call[c], Top(c).em)
      after == EmitterText(call'[c], Top(c).em)
  IN IF Len(after) >= Len(before) /\ SubSeq(after, 1, Len(before)) = before
     THEN SubSeq(after, Len(before) + 1, Len(after))
     ELSE <<"<rewritten>">>
Contains(s, sub) == \E j \in 1..(Len(s) - Len(sub) + 1) : SubSeq(s, j, j + Len(sub) - 1) = sub
MustIncludeEachStep(c) == AtNode(c, "must_include_each") /\ Stepped(c)
RawValue(c) == CtxGet(call[c].scopes, plan[c].vars, CurrentNode(c).arg)
Stringified(raw) == [i \in 1..Len(raw.items) |-> String(raw.items[i])]
UniqueKeys(secs) == \A i, j \in 1..Len(secs) : secs[i].name = secs[j].name => i = j
NonEmptySection(secs) == \E j \in 1..Len(secs) : secs[j].text # <<>>
HasTag(toks, t) == \E j \in 1..Len(toks) : toks[j].t = t

\* ------------------------------------------------------------------ C1
\* C1: while a render is inside a section block nothing reaches the primary text
\* or the buffer of an enclosing section (the output of the block goes to the
\* section's own emitter, and the tag itself adds nothing where it stands), and
\* when the block ends sections[name] holds the rendering of the inner block.
C1_SectionCaptured ==
  [][\A c \in Calls :
       (WithMeta(c) /\ call[c].st = "run" /\ Stepped(c) /\ SectionFrames(call[c]) # {}) =>
         LET inner == Max(SectionFrames(call[c])) IN
         /\ call'[c].text = call[c].text
         /\ \A q \in SectionFrames(call[c]) :
              q < inner => call'[c].frames[q].buf = call[c].frames[q].buf
         /\ AtEnd(c, "section") =>
              LET block == RunTemplates(Top(c).tpls,
                                        CtxGet(call[c].scopes, plan[c].vars, <<"w">>),
                                        plan[c].vars,
                                        [text |-> <<>>, constraints |-> <<>>, sections |-> <<>>])
                  secs == heap'[Top(c).meta].sections
              IN /\ Top(c).meta = call[c].meta
                 /\ HasSection(secs, Top(c).name)
                 /\ SectionText(secs, Top(c).name) = block.text
    ]_vars

C1_Witness ==
  \E c \in Calls :
    /\ WithMeta(c) /\ Done(c)
    /\ call[c].text # <<>>
    /\ NonEmptySection(heap[call[c].meta].sections)

\* ------------------------------------------------------------------ C2
\* C2: for a template without a section tag, renderWithMeta returns no sections
\* and the text render returns for the same template and binding.
C2_SameTextAsRender ==
  \A c, d \in Calls :
    (plan[c].kind = "render" /\ WithMeta(d) /\ plan[c].vars = plan[d].vars
       /\ Done(c) /\ Done(d) /\ ~HasTag(template, "section")) =>
      /\ Returned(d).sections = <<>>
      /\ Returned(d).text = Returned(c).text

\* ------------------------------------------------------------------ C3
\* C3 (as stated): must_include_each on any sequence appends exactly one constraint
\* with the elements stringified in input order and emits a sentence that starts
\* with the lead-in and lists every word.
C3_SentenceForAnySequence ==
  [][\A c \in Calls :
       (WithMeta(c) /\ MustIncludeEachStep(c) /\ RawValue(c).ty = "array") =>
         LET words == Stringified(RawValue(c)) IN
         /\ heap'[call[c].meta].constraints =
              Append(heap[call[c].meta].constraints, [type |-> "must_include_each", words |-> words])
         /\ Len(Emitted(c)) > 0
         /\ Emitted(c)[1] = LeadIn
         /\ \A i \in 1..Len(words) : Contains(Emitted(c), words[i])
    ]_vars

\* C3 (amended): the same for a sequence with at least one element.
C3_SentenceForNonEmptySequence ==
  [][\A c \in Calls :
       (WithMeta(c) /\ MustIncludeEachStep(c) /\ RawValue(c).ty = "array"
          /\ Len(RawValue(c).items) > 0) =>
         LET words == Stringified(RawValue(c)) IN
         /\ heap'[call[c].meta].constraints =
              Append(heap[call[c].meta].constraints, [type |-> "must_include_each", words |-> words])
         /\ Len(Emitted(c)) > 0
         /\ Emitted(c)[1] = LeadIn
         /\ \A i \in 1..Len(words) : Contains(Emitted(c), words[i])
    ]_vars

C3_Witness ==
  \E c \in Calls :
    /\ WithMeta(c) /\ Done(c)
    /\ \E i \in 1..Len(heap[call[c].meta].constraints) :
         heap[call[c].meta].constraints[i].words = <<<<"a">>, <<"2">>>>
    /\ Contains(call[c].text, <<LeadIn, "a", ", ", "2", ".">>)

\* ------------------------------------------------------------------ C4
\* C4: must_include_each on an empty list emits nothing and still appends one
\* constraint whose words are [].
C4_EmptyListRecorded ==
  [][\A c \in Calls :
       (WithMeta(c) /\ MustIncludeEachStep(c) /\ RawValue(c) = ArrVal(<<>>)) =>
         /\ Emitted(c) = <<>>
         /\ heap'[call[c].meta].constraints =
              Append(heap[call[c].meta].constraints, [type |-> "must_include_each", words |-> <<>>])
    ]_vars

C4_Witness ==
  \E c \in Calls :
    /\ WithMeta(c) /\ Done(c)
    /\ plan[c].vars = ArrVal(<<>>)
    /\ template = <<Tok("must_include_each", <<"words">>)>>
    /\ call[c].text = <<>>
    /\ heap[call[c].meta].constraints = <<[type |-> "must_include_each", words |-> <<>>]>>

\* ------------------------------------------------------------------ C5
\* C5: every renderWithMeta call gets a meta object of its own, empty when the
\* call starts; a meta object changes only in steps of the call it belongs to,
\* so nothing of another call is recorded in it and it stays as returned once
\* its call has finished.
C5_MetaPerCall ==
  [][/\ \A c, d \in Calls :
          (c # d /\ call'[c].meta # 0 /\ call'[d].meta # 0) => call'[c].meta # call'[d].meta
     /\ \A c \in Calls :
          (call[c].st = "idle" /\ call'[c].st = "run") => heap'[call'[c].meta] = EmptyMeta
     /\ \A c \in Calls :
          (call[c].meta # 0 /\ ~Stepped(c)) => heap'[call[c].meta] = heap[call[c].meta]
    ]_vars

C5_Witness ==
  \E c, d \in Calls :
    /\ Done(c) /\ Done(d)
    /\ c \in call[d].earlier
    /\ plan[c].vars # plan[d].vars
    /\ heap[call[c].meta].constraints # <<>>
    /\ NonEmptySection(heap[call[d].meta].sections)
    /\ heap[call[c].meta] # heap[call[d].meta]

\* ------------------------------------------------------------------ C6
\* C6: however the steps of two renderWithMeta calls in flight interleave, the
\* sections and constraints a call returns are those the same call produces
\* when it runs alone.
C6_InterleavedAsAlone ==
  \A c \in Calls :
    (WithMeta(c) /\ Done(c)) =>
      LET alone == RenderWithMetaResult(Parse(template).nodes, plan[c].vars)
      IN /\ Returned(c).sections = alone.sections
         /\ Returned(c).constraints = alone.constraints

C6_Witness ==
  \E c, d \in Calls :
    /\ c # d /\ Done(c) /\ Done(d)
    /\ c \notin call[d].earlier /\ d \notin call[c].earlier
    /\ plan[c].vars # plan[d].vars
    /\ NonEmptySection(heap[call[c].meta].sections)
    /\ NonEmptySection(heap[call[d].meta].sections)
    /\ heap[call[c].meta].sections # heap[call[d].meta].sections

\* ------------------------------------------------------------------ C7
\* C7: two renders of the same template text with the same binding return the
\* same text, sections and constraints, whether a partial they include was
\* parsed for the call or taken from the cache.
C7_SameInputsSameResult ==
  \A c, d \in Calls :
    (WithMeta(c) /\ WithMeta(d) /\ Done(c) /\ Done(d) /\ plan[c].vars = plan[d].vars) =>
      Returned(c) = Returned(d)

C7_Witness ==
  \E c, d \in Calls :
    /\ c # d /\ Done(c) /\ Done(d)
    /\ plan[c].vars = plan[d].vars
    /\ ~call[c].hit /\ call[d].hit
    /\ NonEmptySection(heap[call[d].meta].sections)

\* ------------------------------------------------------------------ C8
\* Positions of section tags with no matching endsection.
RECURSIVE ClosedFrom(_, _, _)
ClosedFrom(toks, i, depth) ==
  IF i > Len(toks) THEN FALSE
  ELSE IF toks[i].t = "section" THEN ClosedFrom(toks, i + 1, depth + 1)
  ELSE IF toks[i].t = "endsection"
       THEN IF depth = 0 THEN TRUE ELSE ClosedFrom(toks, i + 1, depth - 1)
  ELSE ClosedFrom(toks, i + 1, depth)
UnclosedSections(toks) ==
  {i \in 1..Len(toks) : toks[i].t = "section" /\ ~ClosedFrom(toks, i + 1, 0)}
RECURSIVE Closers(_)
Closers(k) == IF k = 0 THEN <<>> ELSE <<Tok("endsection", <<>>)>> \o Closers(k - 1)
\* The template lacks nothing but endsection tags at its end.
OnlyEndsectionMissing(toks) ==
  \E k \in 1..Len(toks) : Parse(toks \o Closers(k)).err = NoError
NamesUnclosedSection(err) ==
  /\ err.kind = "not closed"
  /\ \E i \in UnclosedSections(template) : template[i] = err.tag

C9_LastSectionWins ==
  [][/\ \A m \in 1..Len(heap') : UniqueKeys(heap'[m].sections)
     /\ \A c \in Calls :
          (WithMeta(c) /\ AtEnd(c, "section") /\ Stepped(c)) =>
            LET old == heap[Top(c).meta].sections
                new == heap'[Top(c).meta].sections
                name == Top(c).name
            IN /\ HasSection(new, name)
               /\ SectionText(new, name) = Top(c).buf
               /\ Len(new) = Len(old) + (IF HasSection(old, name) THEN 0 ELSE 1)
               /\ \A j \in 1..Len(old) : old[j].name # name => new[j] = old[j]
    ]_vars

\* {% for w in words %}{% section a %}{% must_include_each w %}{% endsection %}{% endfor %}
\* on words = [2, "a"]: the second iteration replaces what the first captured.
C9_Witness ==
  \E c \in Calls :
    /\ WithMeta(c) /\ Done(c)
    /\ template = <<Tok("for", <<"words">>), Tok("section", <<"a">>),
                    Tok("must_include_each", <<"w">>), Tok("endsection", <<>>),
                    Tok("endfor", <<>>)>>
    /\ plan[c].vars = ArrVal(<<NumVal(<<"2">>), StrVal(<<"a">>)>>)
    /\ heap[call[c].meta].sections = <<[name |-> <<"a">>, text |-> <<LeadIn, "a", ".">>]>>

\* ------------------------------------------------------------------ C10
\* C10: during a render the constraints list changes only by a must_include_each
\* step of that render, which appends one entry after the entries already there.
C10_ConstraintsAppendOnly ==
  [][\A c \in Calls :
       (WithMeta(c) /\ call[c].st \in {"run", "done"}) =>
         LET old == heap[call[c].meta].constraints
             new == heap'[call[c].meta].constraints
         IN IF MustIncludeEachStep(c)
            THEN /\ Len(new) = Len(old) + 1
                 /\ SubSeq(new, 1, Len(old)) = old
                 /\ new[Len(new)] = [type |-> "must_include_each", words |-> WordsOf(RawValue(c))]
            ELSE new = old
    ]_vars

\* One directive in a loop over two items, a second one in a branch not taken.
C10_Witness ==
  \E c \in Calls :
    /\ WithMeta(c) /\ Done(c)
    /\ Len(heap[call[c].meta].constraints) = 2
    /\ heap[call[c].meta].constraints[1] # heap[call[c].meta].constraints[2]
    /\ Cardinality({j \in 1..Len(template) : template[j].t = "must_include_each"}) = 1
\* ------------------------------------------------------------------ C11
\* C11: when a section block ends, the value stored under its name is what the
\* block rendered with leading and trailing whitespace removed.
C11_SectionTrimmed ==
  [][\A c \in Calls :
       (WithMeta(c) /\ AtEnd(c, "section") /\ Stepped(c)) =>
         /\ HasSection(heap'[Top(c).meta].sections, Top(c).name)
         /\ SectionText(heap'[Top(c).meta].sections, Top(c).name) = Trim(Top(c).buf)
    ]_vars

\* ------------------------------------------------------------------ C12
\* C12: renderMulti returns the sections of the render as they are when the
\* render produced at least one section, and exactly { prompt: text } when it
\* produced none, also when the template has section blocks that were not executed.
C12_RenderMultiFallback ==
  \A c \in Calls :
    (engine.req[c].op = "renderMulti" /\ engine.req[c].st = "returned") =>
      LET produced == heap[call[c].meta].sections
      IN IF Len(produced) >= 1
         THEN engine.req[c].out.sections = produced
         ELSE engine.req[c].out.sections = <<[name |-> <<"prompt">>, text |-> call[c].text]>>

\* A template whose only section sits in a branch that was not executed.
C12_Witness ==
  \E c \in Calls :
    /\ engine.req[c].op = "renderMulti" /\ engine.req[c].st = "returned"
    /\ HasTag(template, "section")
    /\ call[c].text # <<>>
    /\ engine.req[c].out.sections = <<[name |-> <<"prompt">>, text |-> call[c].text]>>

\* ------------------------------------------------------------------ C13
EngineMethods == {"render", "renderWithMeta", "renderMulti", "validateVariables"}
\* C13: a call of render, renderWithMeta, renderMulti or validateVariables with a
\* name that is not in the template map throws "Template '<name>' not found.",
\* the parser is not invoked for it and the template map stays as it is.
C13_MissingTemplateThrows ==
  [][/\ engine'.templates = engine.templates
     /\ \A c \in Calls :
          (engine.req[c].st = "idle" /\ engine'.req[c].st # "idle"
             /\ engine'.req[c].op \in EngineMethods
             /\ engine'.req[c].name \notin DOMAIN engine.templates) =>
            /\ engine'.req[c].st = "thrown"
            /\ engine'.req[c].err = <<"Template '", engine'.req[c].name, "' not found.">>
            /\ call'[c] = call[c] /\ call[c].st = "idle"
            /\ plan'[c] = NoPlan
     /\ \A c \in Calls : engine.req[c].st = "thrown" => (call'[c] = call[c] /\ plan'[c] = plan[c])
    ]_vars

C13_Witness ==
  \E c \in Calls :
    /\ engine.req[c].op = "renderMulti" /\ engine.req[c].st = "thrown"
    /\ engine.req[c].name = "missing"
    /\ call[c].st = "idle"
    /\ HasTag(template, "section")

\* ------------------------------------------------------------------ C14
\* C14: validateVariables returns valid = true exactly when every definition with
\* required = true has its name among the keys of variables; errors has one
\* "Missing required variable" message per missing required definition, in the
\* order of the declarations, and none for an optional one.
C14_ValidIffRequiredKeysPresent ==
  \A c \in Calls :
    (engine.req[c].op = "validateVariables" /\ engine.req[c].st = "returned") =>
      LET r == engine.req[c]
          missing == SelectSeq(engine.templates[r.name].variables,
                               LAMBDA d : d.required /\ d.name \notin r.variables.keys)
      IN /\ r.out.valid = (Len(missing) = 0)
         /\ r.out.errors =
              [i \in 1..Len(missing) |-> <<"Missing required variable: '", missing[i].name, "'">>]

\* ------------------------------------------------------------------ C15
\* C15: render and renderWithMeta leave the caller's variables object and every
\* value reachable from it as they were, also when it has a key __promptengMeta.
C15_VariablesUnchanged ==
  [][/\ plan' = plan
     /\ \A c \in Calls : plan[c].given # 0 => heap'[plan[c].given] = heap[plan[c].given]
    ]_vars

\* ------------------------------------------------------------------ C16
\* C16: once a filter has been registered under a name, every render that starts
\* afterwards applies the registered function wherever the template, or a
\* partial it renders, uses that name, also when the name was registered by
\* the constructor before and when the text was parsed before the registration.
C16_RegisteredFilterUsed ==
  [][\A c \in Calls :
       (AtNode(c, "output") /\ Stepped(c) /\ Len(CurrentNode(c).arg) >= 2
          /\ call[c].began[CurrentNode(c).arg[2]] = "user") =>
         Emitted(c) = Written(Top(c).em, StrVal(<<"user">>))
    ]_vars

\* ------------------------------------------------------------------ C17
\* The text uses a directive name or a filter name that has no registration.
UsesUnknownName(toks) ==
  \E j \in 1..Len(toks) :
    \/ toks[j] = UnknownTag
    \/ toks[j].t = "output" /\ Len(toks[j].arg) = 2 /\ filters[toks[j].arg[2]] = "none"

\* C17: a render of a text that uses an unregistered directive or filter name
\* fails when the text is parsed; nothing of it is rendered and no text comes back.
C17_UnknownNameFails ==
  \A c \in Calls :
    (call[c].st # "idle" /\ UsesUnknownName(template)) =>
      /\ call[c].st = "failed"
      /\ call[c].text = <<>>

\* ------------------------------------------------------------------ C18
DefaultStep(c) ==
  /\ AtNode(c, "output") /\ Stepped(c)
  /\ Len(CurrentNode(c).arg) = 3
  /\ CurrentNode(c).arg[2] = "default"
  /\ ~InPartial(c)

\* C18: the default filter gives the fallback exactly when its input is
\* undefined, null or the empty string, and its input as it is for anything
\* else, false, 0 and the empty sequence included.
C18_DefaultFilter ==
  [][\A c \in Calls :
       DefaultStep(c) =>
         LET input == CtxGet(call[c].scopes, plan[c].vars, <<CurrentNode(c).arg[1]>>)
             expected == IF input = Undefined \/ input = Null \/ input = StrVal(<<>>)
                         THEN StrVal(<<"fb">>) ELSE input
         IN /\ OutputValue(c) = expected
            /\ Emitted(c) = Written(Top(c).em, expected)
    ]_vars

\* {{ words | default: 'fb' }} on words = false gives "false".
C18_Witness ==
  \E c \in Calls :
    /\ Done(c)
    /\ template = <<Tok("output", <<"words", "default">>)>>
    /\ plan[c].vars = BoolVal(FALSE)
    /\ call[c].text = <<"false">>

\* ------------------------------------------------------------------ C19
IsPrefix(a, b) == Len(a) <= Len(b) /\ SubSeq(b, 1, Len(a)) = a

C20_PromptSent ==
  \A c \in Calls :
    (engine.req[c].op = "runSingleTest" /\ engine.req[c].st = "returned") =>
      LET secs == heap[call[c].meta].sections
          named == {j \in 1..Len(secs) : secs[j].name = <<"prompt">>}
      IN engine.req[c].out.sent =
           IF named # {} THEN secs[CHOOSE j \in named : TRUE].text
           ELSE IF Len(secs) >= 1
                THEN JoinWith([j \in 1..Len(secs) |-> secs[j].text], <<"\n\n">>)
                ELSE call[c].text

\* Two sections, neither named prompt.
C20_Witness ==
  \E c \in Calls :
    /\ engine.req[c].op = "runSingleTest" /\ engine.req[c].st = "returned"
    /\ Len(heap[call[c].meta].sections) = 2
    /\ ~HasSection(heap[call[c].meta].sections, <<"prompt">>)
    /\ engine.req[c].out.sent = <<"t", "\n\n">>

\* ------------------------------------------------------------------ C22
IsContent(x) == x # " " /\ x # ","
Content(s) == SelectSeq(s, IsContent)
\* The positions of s where a comma-separated piece has its first atom that is
\* neither a blank nor a comma.
PieceStarts(s) ==
  {j \in 1..Len(s) :
     /\ IsContent(s[j])
     /\ \A k \in 1..(j - 1) : IsContent(s[k]) => \E m \in (k + 1)..(j - 1) : s[m] = ","}

\* C22: must_include_each on a string appends one constraint whose words are the
\* comma-separated pieces of the string, trimmed, without the empty ones and in
\* the order of the string: no word is empty, holds a comma or starts or ends
\* with a blank, every word stands in the string as it is, there is one word per
\* piece that has more than blanks, and the words read in order give the string
\* without its commas (blanks aside).  On a value that is neither a sequence nor
\* a string the appended constraint has the words [].
C22_WordsFromString ==
  [][\A c \in Calls :
       (WithMeta(c) /\ MustIncludeEachStep(c) /\ RawValue(c).ty # "array") =>
         LET before == heap[call[c].meta].constraints
             after == heap'[call[c].meta].constraints
             words == after[Len(after)].words
             raw == RawValue(c).v
         IN /\ Len(after) = Len(before) + 1
            /\ SubSeq(after, 1, Len(before)) = before
            /\ after[Len(after)].type = "must_include_each"
            /\ RawValue(c).ty # "string" => words = <<>>
            /\ RawValue(c).ty = "string" =>
                 /\ \A i \in 1..Len(words) :
                      /\ words[i] # <<>>
                      /\ \A j \in 1..Len(words[i]) : words[i][j] # ","
                      /\ words[i][1] # " " /\ words[i][Len(words[i])] # " "
                      /\ Contains(raw, words[i])
                 /\ Len(words) = Cardinality(PieceStarts(raw))
                 /\ Content(JoinWith(words, <<>>)) = Content(raw)
    ]_vars

\* `a, b` gave the words a and b.
C22_Witness ==
  \E c \in Calls :
    /\ WithMeta(c) /\ Done(c)
    /\ plan[c].vars = StrVal(<<"a", ",", " ", "b">>)
    /\ Returned(c).constraints = <<Constraint(<<<<"a">>, <<"b">>>>)>>

\* ------------------------------------------------------------------ C23
IsQuote(x) == x = "'" \/ x = "\""
Bare(arg) == SelectSeq(arg, LAMBDA x : ~IsQuote(x))
Keys(secs) == {secs[j].name : j \in 1..Len(secs)}

\* C23: a section tag whose argument is a name, bare or in single or double
\* quotes, writes the key that is this name without the quotes, whatever is
\* bound to a variable of that name: the block is entered under that key and its
\* end adds that key and no other to the sections.
C23_LiteralSectionName ==
  [][\A c \in Calls :
       /\ (AtNode(c, "section") /\ Stepped(c)) =>
            call'[c].frames[Len(call'[c].frames)].name = Bare(CurrentNode(c).arg)
       /\ (WithMeta(c) /\ AtEnd(c, "section") /\ Stepped(c)) =>
            Keys(heap'[call[c].meta].sections) =
              Keys(heap[call[c].meta].sections) \cup {Top(c).name}
    ]_vars

\* The three forms in one template, `words` bound to 'x': one key, words.
C23_Witness ==
  \E c \in Calls :
    /\ WithMeta(c) /\ Done(c)
    /\ plan[c].vars = StrVal(<<"x">>)
    /\ \A arg \in NameForms : \E j \in 1..Len(template) : template[j] = Tok("section", arg)
    /\ Keys(Returned(c).sections) = {<<"words">>}

\* ------------------------------------------------------------------ C24
\* C24: an upper or must_include_each tag that stands inside a section block
\* leaves the primary text as it is and adds its text (the value in upper case,
\* the sentence of the words) to the captured text of the innermost section,
\* and the constraint of such a must_include_each is appended to the constraints
\* the render returns.
C24_TagTextToSection ==
  [][\A c \in Calls :
       (WithMeta(c) /\ call[c].st = "run" /\ Stepped(c) /\ SectionFrames(call[c]) # {}
          /\ (AtNode(c, "upper") \/ AtNode(c, "must_include_each"))) =>
         LET inner == Max(SectionFrames(call[c]))
             before == heap[call[c].meta].constraints
             after == heap'[call[c].meta].constraints
         IN /\ call'[c].text = call[c].text
            /\ AtNode(c, "upper") =>
                 call'[c].frames[inner].buf =
                   call[c].frames[inner].buf \o ToUpperCase(String(RawValue(c)))
            /\ AtNode(c, "must_include_each") =>
                 /\ Len(after) = Len(before) + 1
                 /\ SubSeq(after, 1, Len(before)) = before
                 /\ after[Len(after)].type = "must_include_each"
                 /\ RawValue(c).ty = "array" => after[Len(after)].words = Stringified(RawValue(c))
                 /\ call'[c].frames[inner].buf =
                      call[c].frames[inner].buf \o Sentence(after[Len(after)].words)
    ]_vars

\* A finished render whose section holds the text of both tags, whose primary
\* text is empty and whose constraints hold the words.
C24_Witness ==
  \E c \in Calls :
    /\ WithMeta(c) /\ Done(c)
    /\ Returned(c).text = <<>>
    /\ Returned(c).constraints = <<Constraint(<<<<"a">>, <<"2">>>>)>>
    /\ Len(Returned(c).sections) = 1
    /\ Contains(Returned(c).sections[1].text, <<"A", ",", "2">>)
    /\ Contains(Returned(c).sections[1].text, <<LeadIn>>)

\* ------------------------------------------------------------------ C25
MissingRequiredVariable(r) ==
  /\ Lookup(engine.templates, r.name)
  /\ ~ValidationResult(engine.templates[r.name].variables, r.variables).valid

\* C25: a render or renderWithMeta call on the engine whose bindings lack a
\* required variable does not throw, and what it returns is the rendering of the
\* template with the missing variable undefined.
C25_MissingRequiredRendered ==
  \A c \in Calls :
    LET r == engine.req[c] IN
    (r.op \in {"render", "renderWithMeta"} /\ MissingRequiredVariable(r)) =>
      /\ r.st # "thrown"
      /\ r.st = "returned" =>
           LET alone == RenderWithMetaResult(Parse(engine.templates[r.name].content).nodes, Undefined)
           IN /\ r.out.text = alone.text
              /\ r.op = "renderWithMeta" =>
                   /\ r.out.sections = alone.sections
                   /\ r.out.constraints = alone.constraints

\* `words` is required and not bound; the template uses it in a constraint tag
\* and the call returned.
C25_Witness ==
  \E c \in Calls :
    /\ engine.req[c].op = "renderWithMeta"
    /\ engine.req[c].st = "returned"
    /\ MissingRequiredVariable(engine.req[c])
    /\ engine.req[c].out.constraints = <<Constraint(<<>>)>>

\* ------------------------------------------------------------------ C21
SingleKey(assertions) == \A i \in 1..Len(assertions) : Len(assertions[i]) = 1
\* An assertion { key: v } against the completion text.
Passes(assertion, text) ==
  CASE assertion[1][1] = "contains" -> Contains(text, assertion[1][2])
    [] assertion[1][1] = "not_contains" -> ~Contains(text, assertion[1][2])
    [] OTHER -> FALSE
\* One assertion result per assertion of the test case, in the order of the
\* test case, each passed exactly when its assertion passes; success exactly
\* when all of them pass.
JudgedByAssertions(res, assertions, text) ==
  /\ res.success = (\A i \in 1..Len(assertions) : Passes(assertions[i], text))
  /\ Len(res.assertions) = Len(assertions)
  /\ \A i \in 1..Len(assertions) : res.assertions[i].passed = Passes(assertions[i], text)

\* C21 (as stated): every test result has success true exactly when every
\* assertion of its test case passes against the provider's completion, with one
\* assertion result per assertion in declaration order.
C21_SuccessIffAllPass ==
  \A k \in 1..Len(runner.results) :
    LET res == runner.results[k]
        assertions == runner.tests[res.testCase].assertions
    IN SingleKey(assertions) => JudgedByAssertions(res, assertions, runner.texts[k])

\* C21 (amended): the same for the result of a pair whose render and provider
\* call succeeded; the result of a pair in which one of them failed has success
\* false and no assertion results.
C21_SuccessIffAllPassWhenCompleted ==
  \A k \in 1..Len(runner.results) :
    LET res == runner.results[k]
        assertions == runner.tests[res.testCase].assertions
    IN /\ (res.settled = "asserted" /\ SingleKey(assertions)) =>
            JudgedByAssertions(res, assertions, runner.texts[k])
       /\ res.settled = "caught" => (~res.success /\ res.assertions = <<>>)

\* The completion 'x' judged by `contains: x` and `not_contains: y`: success.
C21_Witness ==
  /\ runner.st = "returned"
  /\ Len(runner.results) = 1
  /\ runner.tests[1].assertions = <<<<Entry("contains", <<"x">>)>>, <<Entry("not_contains", <<"y">>)>>>>
  /\ runner.texts[1] = <<"x">>
  /\ runner.results[1].success
  /\ Len(runner.results[1].assertions) = 2

\* ------------------------------------------------------------------ C26
\* C26: with a provider configured runTests does not throw; the run returns one
\* result per test case and selected provider (every configured provider when
\* the file lists none, else one per listed entry), test case by test case and
\* within a test case provider by provider; a pair whose render or provider
\* call failed is a result with success false and an error message, and passed
\* plus failed is the number of results.
C26_OneResultPerPair ==
  Len(runner.providers) > 0 =>
    /\ runner.st # "thrown"
    /\ \A k \in 1..Len(runner.results) :
         runner.results[k].settled = "caught" =>
           (~runner.results[k].success /\ runner.results[k].error # <<>>)
    /\ Passed(runner.results) + Failed(runner.results) = Len(runner.results)
    /\ runner.st = "returned" =>
         LET n == Len(runner.tests)
             m == Len(runner.selected)
         IN /\ m = IF runner.requested.given THEN Len(runner.requested.list) ELSE Len(runner.providers)
            /\ Len(runner.results) = n * m
            /\ \A i \in 1..n, j \in 1..m :
                 /\ runner.results[(i - 1) * m + j].testCase = runner.tests[i].name
                 /\ runner.results[(i - 1) * m + j].provider = ProviderLabel(runner.selected[j])

\* Two test cases against two providers: four results, the second one of a
\* provider error, the first and the third judged by their assertions.
C26_Witness ==
  /\ runner.st = "returned"
  /\ Len(runner.tests) = 2
  /\ Len(runner.selected) = 2
  /\ runner.selected[1] # runner.selected[2]
  /\ Len(runner.results) = 4
  /\ runner.results[1].settled = "asserted"
  /\ runner.results[2].settled = "caught"
  /\ runner.results[3].settled = "asserted"

====
